---- MODULE Spec2Model ----
(***************************************************************************)
(* IPv4 validator and extractor (src/main.py).                             *)
(*                                                                         *)
(* A text is a sequence of characters; a character is a one-character      *)
(* string, except U0663 (ARABIC-INDIC DIGIT THREE), which stands for the   *)
(* decimal digits outside ASCII that Python's \d also accepts in a str     *)
(* pattern.  Positions are 1-based: position p is the place before the     *)
(* p-th character, Len(s)+1 the end of the text.                           *)
(***************************************************************************)
EXTENDS Integers, Sequences, FiniteSets, TLC

VARIABLES
    op,         \* the library function called: "none" before the call
    arg,        \* the value it was called with
    ret,        \* what the call did: a return value or a raised exception
    spans,      \* the (start, end) positions of the matches of the scan
    pc,         \* cli_main: the statement about to run
    argv,       \* cli_main: the command line
    env,        \* cli_main: what the collaborators did
    content,    \* cli_main: the text handed to the pattern
    exit,       \* cli_main: how the run ended
    stdout,     \* cli_main: lines printed to standard output
    stderr,     \* cli_main: lines printed to standard error
    calls       \* cli_main: how often each collaborator was called

libvars == <<op, arg, ret, spans>>

clivars == <<pc, argv, env, content, exit, stdout, stderr, calls>>

vars == <<libvars, clivars>>

(***************************************************************************)
(* Character classes of the re module for a str pattern.                   *)
(***************************************************************************)
U0663 == "U+0663"

AsciiDigits == {"0", "1", "2", "3", "4", "5", "6", "7", "8", "9"}

\* \d of a str pattern: every Unicode decimal digit (category Nd)
IsDigit(c) == c \in AsciiDigits \/ c = U0663

Letters == {"a", "b", "x", "y", "z"}

\* \w of a str pattern: alphanumerics (Letters stands for all that are not
\* digits) and the underscore
IsWord(c) == IsDigit(c) \/ c \in Letters \/ c = "_"

\* whitespace, which str.strip() removes; these four stand for all of it
Whitespace == {" ", "\t", "\n", "\r"}

(***************************************************************************)
(* IPV4_OCTET: (?:25[0-5]|2[0-4]\d|1\d{2}|[1-9]?\d).  OctetEnds is the     *)
(* sequence of positions at which the octet can end when it starts at i,   *)
(* in the order in which the backtracking matcher tries them.              *)
(***************************************************************************)
At(s, i) == IF i >= 1 /\ i <= Len(s) THEN s[i] ELSE "EOT"

\* Variant: the first alternative written 25\d, which lets 256..259 through
OctetEnds_25Any(s, i) ==
    LET c0 == At(s, i)
        c1 == At(s, i + 1)
        c2 == At(s, i + 2)
    IN  (IF c0 = "2" /\ c1 = "5" /\ IsDigit(c2) THEN <<i + 3>> ELSE <<>>)
        \o (IF c0 = "2" /\ c1 \in {"0", "1", "2", "3", "4"} /\ IsDigit(c2)
            THEN <<i + 3>> ELSE <<>>)
        \o (IF c0 = "1" /\ IsDigit(c1) /\ IsDigit(c2) THEN <<i + 3>> ELSE <<>>)
        \o (IF c0 \in (AsciiDigits \ {"0"}) /\ IsDigit(c1) THEN <<i + 2>> ELSE <<>>)
        \o (IF IsDigit(c0) THEN <<i + 1>> ELSE <<>>)

\* Variant: the second alternative written 2\d\d, which lets 250..299 through
OctetEnds_2AnyAny(s, i) ==
    LET c0 == At(s, i)
        c1 == At(s, i + 1)
        c2 == At(s, i + 2)
    IN  (IF c0 = "2" /\ c1 = "5" /\ c2 \in {"0", "1", "2", "3", "4", "5"}
         THEN <<i + 3>> ELSE <<>>)
        \o (IF c0 = "2" /\ IsDigit(c1) /\ IsDigit(c2) THEN <<i + 3>> ELSE <<>>)
        \o (IF c0 = "1" /\ IsDigit(c1) /\ IsDigit(c2) THEN <<i + 3>> ELSE <<>>)
        \o (IF c0 \in (AsciiDigits \ {"0"}) /\ IsDigit(c1) THEN <<i + 2>> ELSE <<>>)
        \o (IF IsDigit(c0) THEN <<i + 1>> ELSE <<>>)

OctetEnds(s, i) ==
    LET c0 == At(s, i)
        c1 == At(s, i + 1)
        c2 == At(s, i + 2)
        alt1 == IF c0 = "2" /\ c1 = "5" /\ c2 \in {"0", "1", "2", "3", "4", "5"}
                THEN <<i + 3>> ELSE <<>>
        alt2 == IF c0 = "2" /\ c1 \in {"0", "1", "2", "3", "4"} /\ IsDigit(c2)
                THEN <<i + 3>> ELSE <<>>
        alt3 == IF c0 = "1" /\ IsDigit(c1) /\ IsDigit(c2)
                THEN <<i + 3>> ELSE <<>>
        alt4two == IF c0 \in (AsciiDigits \ {"0"}) /\ IsDigit(c1)
                   THEN <<i + 2>> ELSE <<>>
        alt4one == IF IsDigit(c0) THEN <<i + 1>> ELSE <<>>
    IN  alt1 \o alt2 \o alt3 \o alt4two \o alt4one

RECURSIVE FlatMapEnds(_, _, _, _)
RECURSIVE RestEnds(_, _, _)

\* (?:\.OCTET){k} from position i: the ends of all ways to match, in order
RestEnds(s, i, k) ==
    IF k = 0 THEN <<i>>
    ELSE IF At(s, i) = "." THEN FlatMapEnds(s, OctetEnds(s, i + 1), k - 1, 1)
    ELSE <<>>

FlatMapEnds(s, ends, k, j) ==
    IF j > Len(ends) THEN <<>>
    ELSE RestEnds(s, ends[j], k) \o FlatMapEnds(s, ends, k, j + 1)

\* Variant: the pattern without its two \b
WordBoundary_None(s, p) == TRUE

\* \b: exactly one side of position p is a word character
WordBoundary(s, p) ==
    LET before == p > 1 /\ IsWord(s[p - 1])
        after  == p <= Len(s) /\ IsWord(s[p])
    IN  before # after

NoMatch == 0

RECURSIVE FirstEnd(_, _, _, _)
FirstEnd(s, ends, full, j) ==
    IF j > Len(ends) THEN NoMatch
    ELSE IF WordBoundary(s, ends[j]) /\ (full => ends[j] = Len(s) + 1)
         THEN ends[j]
         ELSE FirstEnd(s, ends, full, j + 1)

\* IPV4_REGEX tried at position p: the end of the match, or NoMatch.
\* full: the match must end at the end of the text (fullmatch).
MatchAt(s, p, full) ==
    IF ~WordBoundary(s, p) THEN NoMatch
    ELSE FirstEnd(s, FlatMapEnds(s, OctetEnds(s, p), 3, 1), full, 1)

(***************************************************************************)
(* Python values and call outcomes.                                        *)
(***************************************************************************)
PyStr(chars) == [type |-> "str", chars |-> chars]

PyNone == [type |-> "NoneType", chars |-> <<>>]

PyInt == [type |-> "int", chars |-> <<>>]

PyBytes == [type |-> "bytes", chars |-> <<"7", ".", "7", ".", "7", ".", "7">>]

PyList == [type |-> "list", chars |-> <<>>]

NotCalled == [kind |-> "none", bool |-> FALSE, list |-> <<>>, exc |-> ""]

ReturnBool(b) == [kind |-> "return", bool |-> b, list |-> <<>>, exc |-> ""]

ReturnList(l) == [kind |-> "return", bool |-> FALSE, list |-> l, exc |-> ""]

Raise(e) == [kind |-> "raise", bool |-> FALSE, list |-> <<>>, exc |-> e]

(***************************************************************************)
(* str.strip, Pattern.fullmatch, Pattern.findall                           *)
(***************************************************************************)
RECURSIVE lstrip(_)
lstrip(s) == IF s # <<>> /\ Head(s) \in Whitespace THEN lstrip(Tail(s)) ELSE s

RECURSIVE rstrip(_)
rstrip(s) ==
    IF s # <<>> /\ s[Len(s)] \in Whitespace
    THEN rstrip(SubSeq(s, 1, Len(s) - 1)) ELSE s

strip(s) == rstrip(lstrip(s))

\* Variant: match in place of fullmatch, which stops at the first address
fullmatch_Match(s) == MatchAt(s, 1, FALSE) # NoMatch

\* IPV4_REGEX.fullmatch(s) is not None
fullmatch(s) == MatchAt(s, 1, TRUE) # NoMatch

\* Variant: a scan that resumes one character after the start of a match
RECURSIVE finditer_Overlapping(_, _)
finditer_Overlapping(s, pos) ==
    IF pos > Len(s) + 1 THEN <<>>
    ELSE LET e == MatchAt(s, pos, FALSE)
         IN  IF e = NoMatch THEN finditer_Overlapping(s, pos + 1)
             ELSE <<[start |-> pos, end |-> e]>> \o finditer_Overlapping(s, pos + 1)

\* The scan of findall/finditer from position pos: the spans of the matches.
\* A match is never empty, so the scan resumes where the match ended.
RECURSIVE finditer(_, _)
finditer(s, pos) ==
    IF pos > Len(s) + 1 THEN <<>>
    ELSE LET e == MatchAt(s, pos, FALSE)
         IN  IF e = NoMatch THEN finditer(s, pos + 1)
             ELSE <<[start |-> pos, end |-> e]>> \o finditer(s, e)

Group0(s, span) == SubSeq(s, span.start, span.end - 1)

\* IPV4_REGEX.findall(v): the matched substrings; a TypeError for a value
\* that is not a str (bytes included: the pattern is a str pattern)
findall(v) ==
    IF v.type # "str" THEN Raise("TypeError")
    ELSE LET ms == finditer(v.chars, 1)
         IN  ReturnList([k \in 1..Len(ms) |-> Group0(v.chars, ms[k])])

\* Variant: no isinstance test, so that ip.strip() is called on any value
is_valid_ipv4_NoTypeCheck(ip) ==
    IF ip.type # "str" THEN Raise("AttributeError")
    ELSE ReturnBool(fullmatch(strip(ip.chars)))

is_valid_ipv4(ip) ==
    IF ip.type # "str" THEN ReturnBool(FALSE)
    ELSE ReturnBool(fullmatch(strip(ip.chars)))

find_ipv4_in_text(text) ==
    IF text.type = "NoneType" THEN ReturnList(<<>>)
    ELSE findall(text)

(***************************************************************************)
(* The arguments the two functions are called with: texts put together     *)
(* from a few pieces, and values that are not str.                         *)
(***************************************************************************)
MaxPieces == 5

MaxParts == 4

RECURSIVE Concat(_)
Concat(ps) == IF ps = <<>> THEN <<>> ELSE Head(ps) \o Concat(Tail(ps))

Texts(pieces, n) == {Concat(f) : f \in UNION {[1..k -> pieces] : k \in 0..n}}

\* octets, separators and the middle of an address: 0.249.255.250, 256.249.255.0
ValidatePieces ==
    {<<"0">>, <<"2", "5">>, <<"6">>, <<".">>, <<" ">>, <<"x">>, <<U0663>>,
     <<".", "2", "4", "9", ".", "2", "5", "5", ".">>}

\* an address and what may lengthen, delimit or spoil it: 0.19.199.256,
\* x0.19.199.25, 0.19.199.25 0.19.199.25, 6.0.19.199.25
Addr == <<"0", ".", "1", "9", ".", "1", "9", "9", ".", "2", "5">>

FindPieces == {Addr, <<"0">>, <<"6">>, <<".">>, <<" ">>, <<"x">>, <<U0663>>}

NonStrArgs == {PyNone, PyInt, PyBytes, PyList}

ValidateArgs == {PyStr(t) : t \in Texts(ValidatePieces, MaxPieces)} \cup NonStrArgs

FindArgs == {PyStr(t) : t \in Texts(FindPieces, MaxParts)} \cup NonStrArgs

(***************************************************************************)
(* cli_main and its collaborators.                                         *)
(***************************************************************************)
Str7777 == <<"7", ".", "7", ".", "7", ".", "7">>

\* what the prompt, the URL or the file may hold
CliTexts ==
    {<<>>,
     Str7777,
     <<" ">> \o Str7777 \o <<" ">> \o Str7777 \o <<" ">>,
     <<"x">> \o Str7777,
     <<"2", "5", "6", ".">> \o Str7777}

Modes == {"user", "url", "file"}

\* --mode as given (user when it is not given); ftp is not among the choices
Argvs ==
    [help : BOOLEAN, test : BOOLEAN, mode : Modes \cup {"ftp"},
     source : {"None", "", "src"}]

Running == [state |-> "running", code |-> 0, exc |-> ""]

\* sys.exit(n), or cli_main returning (n = 0)
Exit(n) == [state |-> "exited", code |-> n, exc |-> ""]

\* an exception leaves cli_main: the interpreter ends with status 1
Uncaught(e) == [state |-> "exited", code |-> 1, exc |-> e]

Line(kind, text) == [kind |-> kind, text |-> text]

NoEnv ==
    [parse |-> "none", tests |-> "none", prompt |-> "none", fetch |-> "none",
     read |-> "none"]

NoCalls == [tests |-> 0, prompt |-> 0, fetch |-> 0, read |-> 0, findall |-> 0]

CliIdle ==
    /\ pc = "idle" /\ argv = [help |-> FALSE, test |-> FALSE, mode |-> "user", source |-> "None"]
    /\ env = NoEnv /\ content = <<>> /\ exit = Running
    /\ stdout = <<>> /\ stderr = <<>> /\ calls = NoCalls

LibIdle == op = "none" /\ arg = PyNone /\ ret = NotCalled /\ spans = <<>>

\* extract_from_url: the text of the response, or RuntimeError wrapping
\* whatever requests.get or raise_for_status raised
extract_from_url(outcome) ==
    IF outcome.result = "ok" THEN [raised |-> "", text |-> outcome.text]
    ELSE [raised |-> "RuntimeError", text |-> <<>>]

\* extract_from_file: the text of the file, or the error of open()
extract_from_file(outcome) ==
    IF outcome.result = "ok" THEN [raised |-> "", text |-> outcome.text]
    ELSE [raised |-> "OSError", text |-> <<>>]

FetchOutcomes ==
    {[result |-> "ok", text |-> t] : t \in CliTexts}
    \cup {[result |-> r, text |-> <<>>] : r \in {"transport_error", "http_error"}}

ReadOutcomes ==
    {[result |-> "ok", text |-> t] : t \in CliTexts}
    \cup {[result |-> "open_error", text |-> <<>>]}

\* p.parse_args(argv): argparse ends the run itself for --help (status 0)
\* and for a --mode outside the choices (status 2), whichever comes first
\* on the command line
cli_parse_args ==
    /\ pc = "parse_args"
    /\ \/ /\ argv.help
          /\ env' = [env EXCEPT !.parse = "help"]
          /\ pc' = "done" /\ exit' = Exit(0)
          /\ stdout' = Append(stdout, Line("help", <<>>))
          /\ UNCHANGED stderr
       \/ /\ argv.mode \notin Modes
          /\ env' = [env EXCEPT !.parse = "error"]
          /\ pc' = "done" /\ exit' = Exit(2)
          /\ stderr' = Append(stderr, Line("usage", <<>>))
          /\ UNCHANGED stdout
       \/ /\ ~argv.help /\ argv.mode \in Modes
          /\ env' = [env EXCEPT !.parse = "ok"]
          /\ pc' = IF argv.test THEN "run_tests" ELSE argv.mode
          /\ UNCHANGED <<exit, stdout, stderr>>
    /\ UNCHANGED <<argv, content, calls, libvars>>

\* if args.test: run_tests(); return.  run_tests: the runner writes its
\* report to stderr; sys.exit(1) if not result.wasSuccessful()
cli_run_tests ==
    /\ pc = "run_tests"
    /\ \E ok \in BOOLEAN :
          /\ env' = [env EXCEPT !.tests = IF ok THEN "ok" ELSE "failed"]
          /\ exit' = IF ok THEN Exit(0) ELSE Exit(1)
    /\ calls' = [calls EXCEPT !.tests = @ + 1]
    /\ stderr' = Append(stderr, Line("test_report", <<>>))
    /\ pc' = "done"
    /\ UNCHANGED <<argv, content, stdout, libvars>>

\* mode user: input(...).strip(); at end of input, input raises EOFError,
\* which nothing catches
cli_user ==
    /\ pc = "user"
    /\ calls' = [calls EXCEPT !.prompt = @ + 1]
    /\ stdout' = Append(stdout, Line("prompt", <<>>))
    /\ \/ /\ env' = [env EXCEPT !.prompt = "eof"]
          /\ pc' = "done" /\ exit' = Uncaught("EOFError")
          /\ UNCHANGED content
       \/ \E line \in CliTexts :
             /\ env' = [env EXCEPT !.prompt = "line"]
             /\ content' = strip(line)
             /\ pc' = "report"
             /\ UNCHANGED exit
    /\ UNCHANGED <<argv, stderr, libvars>>

\* Variant: no test of args.source
cli_source_NoCheck(mode) ==
    /\ pc = mode
    /\ pc' = "try_" \o mode
    /\ UNCHANGED <<argv, env, content, stdout, stderr, exit, calls, libvars>>

\* mode url or file: if not args.source: print(..., file=sys.stderr); sys.exit(2)
cli_source(mode) ==
    /\ pc = mode
    /\ IF argv.source \in {"None", ""}
       THEN /\ stderr' = Append(stderr, Line("no_source", <<>>))
            /\ pc' = "done" /\ exit' = Exit(2)
       ELSE /\ pc' = "try_" \o mode
            /\ UNCHANGED <<stderr, exit>>
    /\ UNCHANGED <<argv, env, content, stdout, calls, libvars>>

\* try: content = extract_from_url(args.source)
cli_try_url ==
    /\ pc = "try_url"
    /\ calls' = [calls EXCEPT !.fetch = @ + 1]
    /\ \E o \in FetchOutcomes :
          LET r == extract_from_url(o)
          IN  /\ env' = [env EXCEPT !.fetch = o.result]
              /\ content' = r.text
              /\ pc' = IF r.raised # "" THEN "except_url" ELSE "report"
    /\ UNCHANGED <<argv, exit, stdout, stderr, libvars>>

\* try: content = extract_from_file(args.source)
cli_try_file ==
    /\ pc = "try_file"
    /\ calls' = [calls EXCEPT !.read = @ + 1]
    /\ \E o \in ReadOutcomes :
          LET r == extract_from_file(o)
          IN  /\ env' = [env EXCEPT !.read = o.result]
              /\ content' = r.text
              /\ pc' = IF r.raised # "" THEN "except_file" ELSE "report"
    /\ UNCHANGED <<argv, exit, stdout, stderr, libvars>>

\* Variant: an except clause that tries a second time before it gives up
cli_except_Retry(mode) ==
    /\ pc = "except_" \o mode
    /\ stderr' = Append(stderr, Line("error", <<>>))
    /\ IF calls.fetch + calls.read < 2
       THEN pc' = "try_" \o mode /\ UNCHANGED exit
       ELSE pc' = "done" /\ exit' = Exit(1)
    /\ UNCHANGED <<argv, env, content, stdout, calls, libvars>>

\* except Exception as e: print(..., e, file=sys.stderr); sys.exit(1)
cli_except(mode) ==
    /\ pc = "except_" \o mode
    /\ stderr' = Append(stderr, Line("error", <<>>))
    /\ exit' = Exit(1)
    /\ pc' = "done"
    /\ UNCHANGED <<argv, env, content, stdout, calls, libvars>>

\* ips = IPV4_REGEX.findall(content), then the list or the message that
\* there is none; cli_main returns
cli_report ==
    /\ pc = "report"
    /\ LET ips == findall(PyStr(content)).list
       IN  stdout' = stdout \o
              (IF ips # <<>>
               THEN <<Line("found", <<>>)>> \o [k \in 1..Len(ips) |-> Line("ip", ips[k])]
               ELSE <<Line("none", <<>>)>>)
    /\ calls' = [calls EXCEPT !.findall = @ + 1]
    /\ pc' = "done" /\ exit' = Exit(0)
    /\ UNCHANGED <<argv, env, content, stderr, libvars>>

InitCli ==
    /\ LibIdle
    /\ pc = "parse_args" /\ argv \in Argvs
    /\ env = NoEnv /\ content = <<>> /\ exit = Running
    /\ stdout = <<>> /\ stderr = <<>> /\ calls = NoCalls

NextCli ==
    \/ cli_parse_args
    \/ cli_run_tests
    \/ cli_user
    \/ cli_source("url")
    \/ cli_source("file")
    \/ cli_try_url
    \/ cli_try_file
    \/ cli_except("url")
    \/ cli_except("file")
    \/ cli_report

SpecCli == InitCli /\ [][NextCli]_vars

\* an except clause that was entered runs to its end: it prints and exits,
\* and waits for nothing
SpecCliFair ==
    SpecCli /\ WF_vars(cli_except("url")) /\ WF_vars(cli_except("file"))

(***************************************************************************)
(* One call of either library function.                                    *)
(***************************************************************************)
Init == LibIdle /\ CliIdle

Call_is_valid_ipv4 ==
    /\ op = "none"
    /\ \E v \in ValidateArgs :
          /\ arg' = v
          /\ ret' = is_valid_ipv4(v)
    /\ op' = "is_valid_ipv4"
    /\ UNCHANGED <<spans, clivars>>

Call_find_ipv4_in_text ==
    /\ op = "none"
    /\ \E v \in FindArgs :
          /\ arg' = v
          /\ ret' = find_ipv4_in_text(v)
          /\ spans' = IF v.type = "str" THEN finditer(v.chars, 1) ELSE <<>>
    /\ op' = "find_ipv4_in_text"
    /\ UNCHANGED clivars

Next == Call_is_valid_ipv4 \/ Call_find_ipv4_in_text

Spec == Init /\ [][Next]_vars

SpecValidate == Init /\ [][Call_is_valid_ipv4]_vars

SpecFind == Init /\ [][Call_find_ipv4_in_text]_vars

(***************************************************************************)
(* What the claims speak of: tokens between dots and the numbers they      *)
(* denote.  None of this uses the matcher.                                 *)
(***************************************************************************)
RECURSIVE FirstDot(_, _)
FirstDot(s, i) ==
    IF i > Len(s) THEN 0 ELSE IF s[i] = "." THEN i ELSE FirstDot(s, i + 1)

RECURSIVE SplitDots(_)
SplitDots(s) ==
    LET d == FirstDot(s, 1)
    IN  IF d = 0 THEN <<s>>
        ELSE <<SubSeq(s, 1, d - 1)>> \o SplitDots(SubSeq(s, d + 1, Len(s)))

DigitValue(c) ==
    CASE c = "0" -> 0 [] c = "1" -> 1 [] c = "2" -> 2 [] c = "3" -> 3
      [] c = "4" -> 4 [] c = "5" -> 5 [] c = "6" -> 6 [] c = "7" -> 7
      [] c = "8" -> 8 [] c = "9" -> 9 [] c = U0663 -> 3

\* the number a token of digits denotes; every number above 999 counts as
\* 999, which is all a comparison with 255 needs
RECURSIVE Decimal(_)
Decimal(tok) ==
    IF tok = <<>> THEN 0
    ELSE LET v == 10 * Decimal(SubSeq(tok, 1, Len(tok) - 1)) + DigitValue(tok[Len(tok)])
         IN  IF v > 999 THEN 999 ELSE v

\* a token of decimal digits, whatever their script
IsNumber(tok) == tok # <<>> /\ \A i \in 1..Len(tok) : IsDigit(tok[i])

\* a token written with 0-9 only, in 0..255, no leading zero unless it is "0"
IsAsciiOctet(tok) ==
    /\ tok # <<>>
    /\ \A i \in 1..Len(tok) : tok[i] \in AsciiDigits
    /\ Decimal(tok) <= 255
    /\ Len(tok) > 1 => tok[1] # "0"

IsIPv4Literal(t) ==
    LET ks == SplitDots(t)
    IN  Len(ks) = 4 /\ \A k \in 1..4 : IsAsciiOctet(ks[k])

\* four dot-separated decimal tokens, each in 0..255, and nothing else
IsDottedQuad(t) ==
    LET ks == SplitDots(t)
    IN  Len(ks) = 4 /\ \A k \in 1..4 : IsNumber(ks[k]) /\ Decimal(ks[k]) <= 255

ValidateCalled == op = "is_valid_ipv4" /\ arg.type = "str"

FindCalled == op = "find_ipv4_in_text" /\ arg.type = "str"

(***************************************************************************)
(* C1: is_valid_ipv4(s) is True exactly when s.strip() is four tokens      *)
(* separated by single dots, each written with 0-9 only, in 0..255 and     *)
(* without a leading zero unless it is "0".                                *)
(***************************************************************************)
\* C1: accepted exactly when the stripped string is an IPv4 literal
C1_ValidIffLiteral ==
    ValidateCalled =>
        /\ ret.kind = "return"
        /\ ret.bool <=> IsIPv4Literal(strip(arg.chars))

(***************************************************************************)
(* C2: is_valid_ipv4 returns False for every string with an octet value    *)
(* outside 0..255, or with fewer or more than four dot-separated tokens,   *)
(* or with a character that is neither a decimal digit nor a dot.          *)
(***************************************************************************)
HasOtherChar(t) == \E i \in 1..Len(t) : ~IsDigit(t[i]) /\ t[i] # "."

HasBigOctet(t) ==
    LET ks == SplitDots(t)
    IN  \E k \in 1..Len(ks) : IsNumber(ks[k]) /\ Decimal(ks[k]) > 255

Malformed(t) == HasBigOctet(t) \/ Len(SplitDots(t)) # 4 \/ HasOtherChar(t)

WordBefore(t, a) == a > 1 /\ IsWord(t[a - 1])

WordAfter(t, b) == b <= Len(t) /\ IsWord(t[b])

NoMatchTouchesWord ==
    \A k \in 1..Len(spans) :
        /\ ~WordBefore(arg.chars, spans[k].start)
        /\ ~WordAfter(arg.chars, spans[k].end)
        /\ ret.list[k] = SubSeq(arg.chars, spans[k].start, spans[k].end - 1)

\* the addresses of the text between positions a and b that touch no word
\* character (an address has 7 to 15 characters)
DelimitedAddresses(t) ==
    {ab \in (1..Len(t)) \X (1..Len(t) + 1) :
        /\ ab[2] - ab[1] \in 7..15
        /\ ~WordBefore(t, ab[1]) /\ ~WordAfter(t, ab[2])
        /\ IsIPv4Literal(SubSeq(t, ab[1], ab[2] - 1))}

Returned(ab) == \E k \in 1..Len(spans) : spans[k] = [start |-> ab[1], end |-> ab[2]]

\* a match that starts before position a runs over it
Overrun(a) == \E k \in 1..Len(spans) : spans[k].start < a /\ a < spans[k].end

\* C4 as stated: no match touches a word character, and every delimited
\* address is returned
C4_DelimitedIsReturned ==
    FindCalled =>
        /\ NoMatchTouchesWord
        /\ \A ab \in DelimitedAddresses(arg.chars) : Returned(ab)

\* C4 as amended: no match touches a word character, and every delimited
\* address is returned unless a match that starts further left runs over it
C4_DelimitedIsReturnedUnlessOverrun ==
    FindCalled =>
        /\ NoMatchTouchesWord
        /\ \A ab \in DelimitedAddresses(arg.chars) : Overrun(ab[1]) \/ Returned(ab)

\* x0.19.199.25 0.19.199.25: the first is inside a run, the second returned
C4_Witness ==
    /\ FindCalled
    /\ arg.chars = <<"x">> \o Addr \o <<" ">> \o Addr
    /\ ret.list = <<Addr>>
    /\ spans = <<[start |-> 14, end |-> 25]>>

(***************************************************************************)
(* C5: find_ipv4_in_text returns the matches of one left-to-right scan:    *)
(* they do not overlap, come in strictly increasing order of their start,  *)
(* an address that occurs several times is listed each time, and the list  *)
(* is empty when nothing matches.                                          *)
(***************************************************************************)
Starts == {spans[k].start : k \in 1..Len(spans)}

\* C5: the list is that of the leftmost non-overlapping matches, in order
C5_LeftToRightScan ==
    FindCalled =>
        /\ Len(ret.list) = Len(spans)
        /\ \A k \in 1..Len(spans) :
              /\ spans[k].start < spans[k].end
              /\ MatchAt(arg.chars, spans[k].start, FALSE) = spans[k].end
              /\ ret.list[k] = SubSeq(arg.chars, spans[k].start, spans[k].end - 1)
              /\ k < Len(spans) => spans[k].end <= spans[k + 1].start
        /\ \A p \in 1..Len(arg.chars) + 1 :
              MatchAt(arg.chars, p, FALSE) # NoMatch => p \in Starts \/ Overrun(p)
        /\ (ret.list = <<>>) <=>
              \A p \in 1..Len(arg.chars) + 1 : MatchAt(arg.chars, p, FALSE) = NoMatch

\* the same address twice, listed twice
C5_Witness ==
    /\ FindCalled
    /\ arg.chars = Addr \o <<" ">> \o Addr
    /\ ret.list = <<Addr, Addr>>

(***************************************************************************)
(* C6: is_valid_ipv4 returns False, without raising, for None and every    *)
(* other value that is not a str; find_ipv4_in_text returns the empty      *)
(* list, without raising, for None.                                        *)
(***************************************************************************)
\* C6: False for what is not a str, the empty list for None, no exception
C6_NonTextIsHandled ==
    /\ op = "is_valid_ipv4" /\ arg.type # "str" => ret = ReturnBool(FALSE)
    /\ op = "find_ipv4_in_text" /\ arg = PyNone => ret = ReturnList(<<>>)

C6_Witness == op = "is_valid_ipv4" /\ arg = PyBytes /\ ret = ReturnBool(FALSE)

(***************************************************************************)
(* C7: find_ipv4_in_text raises for no argument at all: for a number, a    *)
(* bytes value or a list too it returns a sequence.                        *)
(***************************************************************************)
\* C7: whatever the argument, the call returns
C7_FindNeverRaises == op = "find_ipv4_in_text" => ret.kind = "return"

(***************************************************************************)
(* C10: for every s that is_valid_ipv4 accepts, find_ipv4_in_text(s) is    *)
(* the one-element list [s.strip()]; and is_valid_ipv4 accepts every       *)
(* element of every list find_ipv4_in_text returns.                        *)
(***************************************************************************)
\* C10: what one function accepts the other returns, and the reverse
C10_ValidatorAndExtractorAgree ==
    /\ ValidateCalled /\ ret.bool =>
          find_ipv4_in_text(arg) = ReturnList(<<strip(arg.chars)>>)
    /\ FindCalled =>
          \A k \in 1..Len(ret.list) :
              is_valid_ipv4(PyStr(ret.list[k])) = ReturnBool(TRUE)

\* an accepted string with whitespace around it
C10_Witness ==
    /\ ValidateCalled /\ ret.bool
    /\ arg.chars # strip(arg.chars)
    /\ find_ipv4_in_text(arg) = ReturnList(<<strip(arg.chars)>>)

(***************************************************************************)
(* C8: every run of cli_main ends in exactly one way: exit code 1 when the *)
(* fetch or the read fails or the test suite fails; exit code 2 when the   *)
(* mode is url or file and --source is missing, before anything is fetched *)
(* or read; exit code 0 otherwise, a successful --test run included, which *)
(* replaces normal operation whatever --mode and --source are.             *)
(***************************************************************************)
FetchOrReadFailed ==
    env.fetch \in {"transport_error", "http_error"} \/ env.read = "open_error"

NoSource == argv.mode \in {"url", "file"} /\ argv.source \in {"None", ""}

NothingFetched == calls.fetch = 0 /\ calls.read = 0

OnlyTestsRan == calls = [NoCalls EXCEPT !.tests = 1] /\ stdout = <<>>

\* C8 as stated, of the runs that argparse does not end itself, an empty
\* --source counting as a missing one
C8_ExitCodes ==
    pc = "done" /\ env.parse = "ok" =>
        IF argv.test
        THEN exit = Exit(IF env.tests = "failed" THEN 1 ELSE 0) /\ OnlyTestsRan
        ELSE IF NoSource THEN exit = Exit(2) /\ NothingFetched
        ELSE IF FetchOrReadFailed THEN exit = Exit(1)
        ELSE exit = Exit(0)

\* C8 as amended: argparse ends the run for --help and for a bad --mode, and
\* at end of input the prompt of user mode raises EOFError, which ends the
\* run with status 1
C8_ExitCodesOrEOFError ==
    pc = "done" =>
        IF env.parse = "help" THEN exit = Exit(0)
        ELSE IF env.parse = "error" THEN exit = Exit(2)
        ELSE IF argv.test
        THEN exit = Exit(IF env.tests = "failed" THEN 1 ELSE 0) /\ OnlyTestsRan
        ELSE IF NoSource THEN exit = Exit(2) /\ NothingFetched
        ELSE IF FetchOrReadFailed THEN exit = Exit(1)
        ELSE IF env.prompt = "eof" THEN exit = Uncaught("EOFError")
        ELSE exit = Exit(0)

\* --test with --mode url and no --source: the suite passes, the run ends 0
C8_Witness ==
    /\ pc = "done" /\ argv.test /\ argv.mode = "url" /\ argv.source = "None"
    /\ env.tests = "ok" /\ exit = Exit(0)

(***************************************************************************)
(* C9: when the fetch or the read fails, cli_main tries once and no more:  *)
(* it prints the error to standard error, extracts nothing, prints no      *)
(* address list to standard output and ends with a non-zero exit code.     *)
(***************************************************************************)
FailedOnce ==
    FetchOrReadFailed =>
        /\ calls.fetch + calls.read = 1
        /\ calls.findall = 0
        /\ stdout = <<>>
        /\ pc \in {"except_url", "except_file", "done"}
        /\ pc = "done" =>
              /\ exit.state = "exited" /\ exit.code # 0
              /\ stderr = <<Line("error", <<>>)>>

\* C9: after a failed fetch or read, one attempt, no extraction, no list,
\* and the run ends with a non-zero exit code
C9_FailsWithoutRetry == []FailedOnce /\ (FetchOrReadFailed ~> pc = "done")

C9_Witness ==
    /\ pc = "done" /\ env.fetch = "http_error" /\ exit = Exit(1)
    /\ calls.fetch = 1 /\ stderr # <<>>

====
